---- MODULE Spec2Model ----
(***************************************************************************)
(* The chess codec of Chess-Encryption-API: encode (src/encode.py) hides   *)
(* the bytes of a file in the moves of one or more chess games, decode     *)
(* (src/decode.py) replays the games and rebuilds the bytes.               *)
(*                                                                         *)
(* The rules engine (python-chess) is outside the repository.  It is a     *)
(* function from a position (the moves played from the initial position)   *)
(* to the number of legal moves and the status of that position; the       *)
(* variable engine holds the part of that function the run has asked for,  *)
(* each answer chosen when the position is first reached.  A move is named *)
(* by its index in the engine's enumeration of the legal moves.            *)
(***************************************************************************)
EXTENDS Integers, Sequences, FiniteSets, TLC

(* ------------------------------ bounds -------------------------------- *)

\* The ply cap of should_end_game (150 in src/encode.py:70), scaled down so
\* that a game of the model reaches it.
PlyCap == 5

\* Seeds are drawn in 1..MaxSeed (1..1_000_000 in the source).
MaxSeed == 2

\* How many positions with exactly one legal move the engine reports.
MaxForced == 1

\* How many terminal positions (game over, claimable draw) the engine reports.
MaxTerminal == 1

\* The clock runs over 0..MaxTime.
MaxTime == 2

\* How many requests the service handles at the same time.
MaxRequests == 2

\* The longest game, in plies, a client uploads to have its bits parsed.
MaxChunks == 4

\* The longest payload, in bytes, of the specification of the frame.
MaxBytes == 2

\* Byte values the payloads are made of: 01010101 and 10100101, which carry
\* the marker patterns 0101 and 1010.
ByteVals == {85, 165}

\* Legal-move counts the engine reports for a position that is not the
\* initial one (0 only with game over).
LegalCounts == {1, 8, 20}

\* Legal moves of the initial position of chess.
InitialMoves == 20

\* The payloads: the input files of one byte.
Payloads == {<<b>> : b \in ByteVals}

\* Byte values of the payloads of the specification of the frame: with
\* 00000101, 01010000, 01010101, 10100101 and 10101010 the patterns 1010 and
\* 0101 occur inside a byte and across two bytes, at every bit offset.
FrameByteVals == {0, 5, 80, 85, 165, 170, 255}

\* The payloads of the specification of the frame: 1..MaxBytes bytes.
FramePayloads == UNION {[1..n -> FrameByteVals] : n \in 1..MaxBytes}

(* ------------------------- strings and numbers ------------------------ *)

Min(a, b) == IF a <= b THEN a ELSE b

Digit == <<"0", "1", "2", "3", "4", "5", "6", "7", "8", "9">>

RECURSIVE Str(_)
\* str(n) of a non-negative integer: its decimal digits.
Str(n) == IF n < 10 THEN <<Digit[n + 1]>> ELSE Str(n \div 10) \o <<Digit[(n % 10) + 1]>>

DigitValue(c) == CHOOSE d \in 0..9 : Digit[d + 1] = c

\* int(s) raises ValueError unless s is a non-empty run of decimal digits.
IsInt(s) == Len(s) > 0 /\ \A i \in 1..Len(s) : \E d \in 1..10 : Digit[d] = s[i]

RECURSIVE ParseInt(_)
\* int(s) of a run of decimal digits.
ParseInt(s) == IF Len(s) = 0 THEN 0
               ELSE 10 * ParseInt(SubSeq(s, 1, Len(s) - 1)) + DigitValue(s[Len(s)])

RECURSIVE Log2Ceil(_)
\* As Log2Floor, rounded up (ceil in place of floor).
Log2Ceil(n) == IF n < 2 THEN 0 ELSE 1 + Log2Ceil((n + 1) \div 2)

RECURSIVE Log2Floor(_)
\* floor(log2(n)) for n >= 1.
Log2Floor(n) == IF n < 2 THEN 0 ELSE 1 + Log2Floor(n \div 2)

RECURSIVE Binary(_)
\* The binary digits of v without leading zeros ("0" for 0).
Binary(v) == IF v < 2 THEN <<v>> ELSE Binary(v \div 2) \o <<v % 2>>

Zeros(k) == [i \in 1..k |-> 0]

\* format(v, '0wb'): the binary digits of v, zero-padded on the left to at
\* least w digits (never cut).
Format(v, w) == LET b == Binary(v) IN IF Len(b) >= w THEN b ELSE Zeros(w - Len(b)) \o b

RECURSIVE BitsToInt(_)
\* int(bits, 2).
BitsToInt(bits) == IF Len(bits) = 0 THEN 0
                   ELSE 2 * BitsToInt(SubSeq(bits, 1, Len(bits) - 1)) + bits[Len(bits)]

RECURSIVE Flatten(_)
\* ''.join(seq)
Flatten(seq) == IF Len(seq) = 0 THEN <<>> ELSE Head(seq) \o Flatten(Tail(seq))

(* ------------------------------- frame -------------------------------- *)

START_MARKER == <<1, 0, 1, 0>>
END_MARKER == <<0, 1, 0, 1>>

\* ''.join(format(byte, '08b') for byte in file_bytes)
DataBits(file_bytes) == Flatten([i \in 1..Len(file_bytes) |-> Format(file_bytes[i], 8)])

\* As PaddingNeeded, without the outer modulo.
PaddingNeededNoWrap(file_bytes) ==
    LET total_bits == Len(START_MARKER) + Len(DataBits(file_bytes)) + Len(END_MARKER)
    IN  8 - (total_bits % 8)

\* encode.py:81-82
PaddingNeeded(file_bytes) ==
    LET total_bits == Len(START_MARKER) + Len(DataBits(file_bytes)) + Len(END_MARKER)
    IN  (8 - (total_bits % 8)) % 8

CompleteBinary(file_bytes) ==
    START_MARKER \o DataBits(file_bytes) \o Zeros(PaddingNeeded(file_bytes)) \o END_MARKER

(* ------------------------------- state -------------------------------- *)

VARIABLES
    now,                 \* the clock, epoch seconds
    inFile,              \* the file at file_path: <<>> absent, <<bytes>> present
    pgnFile,             \* the file at output_pgn_path / pgn_file_path: <<>> or <<items>>
    outFile,             \* the file at output_file_path: <<>> or <<bytes>>
    engine,              \* the rules engine: position -> [n, st], as far as asked
    limits,              \* what the engine and the file system may do in this run,
                         \* and whether the run keeps the per-ply records
    seed_source,         \* seeds injected into random.randint, in order
    drawn,               \* seeds drawn by random.randint so far
    self_destruct_timer, \* argument of encode: <<>> (None) or <<seconds>>
    custom_headers,      \* argument of encode: a dict, empty for None
    previous,            \* <<>>, or <<r>>: what the previous run of encode, or of
                         \* decode, produced
    epc,                 \* where encode is: idle, loop, done, failed
    eerr,                \* the error encode raised
    complete_binary, file_bit_index, chess_board, base_seed, move_random,
    game_number, output_pgns, expiry_time,
    chunks,              \* the bits taken by each bit-carrying step, in order
    picked,              \* for each game begun, what encode did at each of its plies
    dpc,                 \* where decode is: idle, extract, parse, done, failed
    derr,                \* the error decode raised
    current_time, games, game_index, all_bits,
    emitted,             \* the bits emitted for each replayed move, in order
    found,               \* for each game replayed, what decode did at each of its plies
    files,               \* the service's output folder: path -> content
    requests             \* the service's requests: where each is, its path, its answer

envVars == <<now, inFile, limits, seed_source, self_destruct_timer, custom_headers,
             previous, files, requests>>
encVars == <<epc, eerr, complete_binary, file_bit_index, chess_board, base_seed,
             move_random, game_number, output_pgns, expiry_time, chunks, picked>>
decVars == <<dpc, derr, current_time, games, game_index, all_bits, emitted, found>>
vars == <<envVars, encVars, decVars, pgnFile, outFile, engine, drawn>>

\* What one call of encode or decode works on.
codecVars == <<now, inFile, limits, seed_source, self_destruct_timer, custom_headers,
               previous, encVars, decVars, pgnFile, outFile, engine, drawn>>

(* ---------------------------- rules engine ---------------------------- *)

\* What the engine can say of a position other than the initial one: the
\* number of legal moves and whether the game is over there ("over"), a
\* draw can be claimed ("claim") or neither ("play").  No legal move means
\* game over; a game over with legal moves left (insufficient material) is
\* treated by encode as one without, and is not told apart.
Answers(counts) ==
    {[n |-> c, st |-> s] : c \in counts, s \in {"play", "claim"}}
        \cup {[n |-> 0, st |-> "over"]}

Forced(eng) == Cardinality({p \in DOMAIN eng : eng[p].n = 1})
Terminal(eng) == Cardinality({p \in DOMAIN eng : eng[p].st # "play"})

\* The engine after the position pos has been reached.
Reach(pos) ==
    IF pos \in DOMAIN engine THEN {engine}
    ELSE {e \in {engine @@ (pos :> a) : a \in Answers(limits.counts)} :
              Forced(e) <= limits.forced /\ Terminal(e) <= limits.terminal}

\* list(board.legal_moves): the moves in the engine's order.  A position the
\* engine was never asked about is an ordinary middle-game position.
LegalMoves(eng, board) ==
    LET n == IF board \in DOMAIN eng THEN eng[board].n ELSE InitialMoves
    IN  [i \in 1..n |-> i - 1]

is_game_over(eng, board) == eng[board].st = "over"

can_claim_draw(eng, board) == eng[board].st = "claim"

should_end_game(eng, board) ==
    is_game_over(eng, board) \/ can_claim_draw(eng, board) \/ Len(board) >= PlyCap

(* ------------------------- seeded generator -------------------------- *)

\* As Random, a generator seeded from the clock (random.Random()).
RandomFromClock(seed) == now % 32

\* random.Random(seed): the state of a generator is a number.
Random(seed) == seed % 32

\* The state after one shuffle of a list of n elements.
Advance(rng, n) == (5 * rng + n + 1) % 32

\* move_random.shuffle(legal_moves): a permutation fixed by the state.
Shuffle(rng, legal_moves) ==
    LET n == Len(legal_moves)
    IN  [i \in 1..n |-> legal_moves[((i + 3 * rng) % n) + 1]]

\* random.randint(1, 1_000_000): the next injected seed, or any seed.
DrawChoices ==
    IF Len(drawn) < Len(seed_source) THEN {seed_source[Len(drawn) + 1]} ELSE 1..MaxSeed

(* ---------------------------- game records --------------------------- *)

Empty == [k \in {} |-> <<>>]

default_headers ==
    [k \in {"Event", "Site", "Round", "White", "Black"} |-> <<"?">>]
        @@ ("Date" :> <<"?", "?", "?", "?", ".", "?", "?", ".", "?", "?">>)
        @@ ("Result" :> <<"*">>)

\* The game_headers encode passes for the game_number-th game.
GameHeaders(custom, number) ==
    IF number > 1 /\ "Round" \notin DOMAIN custom
    THEN custom @@ ("Round" :> Str(number))
    ELSE custom

\* As ExpiryHeader, the expiry computed anew from the clock for each record.
ExpiryHeaderAnew(expiry) ==
    IF Len(expiry) > 0 THEN ("ExpiryTime" :> Str(now + self_destruct_timer[1])) ELSE Empty

\* encode.py:58-60
ExpiryHeader(expiry) ==
    IF Len(expiry) > 0 THEN ("ExpiryTime" :> Str(expiry[1])) ELSE Empty

create_game_record(board, seed, expiry, game_headers) ==
    LET given == {k \in DOMAIN game_headers : Len(game_headers[k]) > 0}
        custom == [k \in given |-> game_headers[k]]
    IN  [kind |-> "game",
         headers |-> ExpiryHeader(expiry) @@ custom @@ default_headers
                         @@ ("Seed" :> Str(seed)),
         moves |-> board]

(* ------------------------------- encode ------------------------------- *)

\* What encode or decode did at one ply: the number of legal moves, the
\* generator before and after, whether the legal moves were shuffled, the
\* index of the move in the shuffled list (-1 when none was looked up), the
\* move, and the cursor before and after (decode has no cursor: 0).
Ply(n, rng, after, shuffled, index, move, from, to) ==
    [n |-> n, rng |-> rng, after |-> after, shuffled |-> shuffled, index |-> index,
     move |-> move, from |-> from, to |-> to]

\* An empty record opened for the game that begins (records are kept in
\* the runs that observe them: limits.history).
Begun(records) == IF limits.history THEN Append(records, <<>>) ELSE records

\* The record entry added to the game in progress, and an empty record
\* opened when a new game begins.
Picked(entry, begins) ==
    LET g == Len(picked)
        p == IF limits.history THEN [picked EXCEPT ![g] = Append(@, entry)] ELSE picked
    IN  IF begins THEN Begun(p) ELSE p

file_bits_count == Len(complete_binary)

\* The exception leaves encode: logged and raised again (encode.py:200-202).
EncodeRaise(msg) ==
    /\ epc' = "failed"
    /\ eerr' = msg

\* As read_input_file, an empty file read as any other.
read_input_file_unchecked(file) ==
    IF Len(file) = 0 THEN "Input file does not exist" ELSE ""

\* encode.py:13-22: the ValueError read_input_file raises, "" for none.
read_input_file(file) ==
    IF Len(file) = 0 THEN "Input file does not exist"
    ELSE IF Len(file[1]) = 0 THEN "Input file is empty"
    ELSE ""

\* encode.py:74-101: read the input, build the frame, fix the expiry, set
\* up the first game.
EncodeBegin ==
    /\ epc = "idle"
    /\ IF read_input_file(inFile) # ""
       THEN /\ EncodeRaise(read_input_file(inFile))
            /\ UNCHANGED <<complete_binary, expiry_time, base_seed, move_random, drawn>>
       ELSE \E seed \in DrawChoices :
            /\ complete_binary' = CompleteBinary(inFile[1])
            /\ expiry_time' = IF Len(self_destruct_timer) > 0 /\ self_destruct_timer[1] > 0
                              THEN <<now + self_destruct_timer[1]>>
                              ELSE <<>>
            /\ base_seed' = seed
            /\ move_random' = Random(seed)
            /\ drawn' = Append(drawn, seed)
            /\ epc' = "loop"
            /\ eerr' = ""
    /\ output_pgns' = <<>>
    /\ file_bit_index' = 0
    /\ chess_board' = <<>>
    /\ game_number' = 1
    /\ chunks' = <<>>
    /\ picked' = IF read_input_file(inFile) # "" THEN <<>> ELSE Begun(<<>>)
    /\ UNCHANGED <<envVars, decVars, pgnFile, outFile, engine>>

\* As NewGame, the seed of the next game drawn before the record of the
\* game on board is made.
NewGameSeedFirst(board, seed) ==
    /\ output_pgns' = Append(output_pgns,
           create_game_record(board, seed, expiry_time,
                              GameHeaders(custom_headers, game_number)))
    /\ chess_board' = <<>>
    /\ base_seed' = seed
    /\ move_random' = Random(seed)
    /\ drawn' = Append(drawn, seed)
    /\ game_number' = game_number + 1

\* encode.py:109-122 and 151-158: close the game on board and start the next.
NewGame(board, seed) ==
    /\ output_pgns' = Append(output_pgns,
           create_game_record(board, base_seed, expiry_time,
                              GameHeaders(custom_headers, game_number)))
    /\ chess_board' = <<>>
    /\ base_seed' = seed
    /\ move_random' = Random(seed)
    /\ drawn' = Append(drawn, seed)
    /\ game_number' = game_number + 1

\* As ForcedStep, the shuffle made before the branch on the number of legal
\* moves: the generator is advanced at a forced move too.
ForcedStepShuffled(legal_moves) ==
    LET board == IF Len(legal_moves) > 0
                 THEN Append(chess_board, legal_moves[1])
                 ELSE chess_board
    IN  \E eng \in Reach(board), seed \in DrawChoices :
            /\ engine' = eng
            /\ IF Len(legal_moves) = 0 \/ is_game_over(eng, board)
               THEN NewGame(board, seed)
               ELSE /\ chess_board' = board
                    /\ move_random' = Advance(move_random, Len(legal_moves))
                    /\ UNCHANGED <<output_pgns, base_seed, drawn, game_number>>
            /\ picked' =
                   LET begins == Len(legal_moves) = 0 \/ is_game_over(eng, board)
                   IN  IF Len(legal_moves) = 0 THEN Begun(picked)
                       ELSE Picked(Ply(Len(legal_moves), move_random, move_random, FALSE,
                                       -1, legal_moves[1], file_bit_index, file_bit_index),
                                   begins)
            /\ UNCHANGED <<epc, eerr, file_bit_index, chunks>>

\* encode.py:105-123: a position with at most one legal move.
ForcedStep(legal_moves) ==
    LET board == IF Len(legal_moves) > 0
                 THEN Append(chess_board, legal_moves[1])
                 ELSE chess_board
    IN  \E eng \in Reach(board), seed \in DrawChoices :
            /\ engine' = eng
            /\ IF Len(legal_moves) = 0 \/ is_game_over(eng, board)
               THEN NewGame(board, seed)
               ELSE /\ chess_board' = board
                    /\ UNCHANGED <<output_pgns, base_seed, move_random, drawn, game_number>>
            /\ picked' =
                   LET begins == Len(legal_moves) = 0 \/ is_game_over(eng, board)
                   IN  IF Len(legal_moves) = 0 THEN Begun(picked)
                       ELSE Picked(Ply(Len(legal_moves), move_random, move_random, FALSE,
                                       -1, legal_moves[1], file_bit_index, file_bit_index),
                                   begins)
            /\ UNCHANGED <<epc, eerr, file_bit_index, chunks>>

\* s[a:b] of Python for 0 <= a <= b: the end is cut at the length of s.
Slice(s, a, b) == SubSeq(s, a + 1, Min(b, Len(s)))

\* As BitsToEncode, the bits left in the frame ignored.
BitsToEncodeNoMin(max_bits, remaining_bits) == max_bits

\* encode.py:126
BitsToEncode(max_bits, remaining_bits) == Min(max_bits, remaining_bits)

\* As NextCursor, the cursor left where it is.
NextCursorStuck(cursor, bits_to_encode) == cursor

\* encode.py:138: file_bit_index += bits_to_encode
NextCursor(cursor, bits_to_encode) == cursor + bits_to_encode

\* encode.py:124-158: a position with two or more legal moves.
BitStep(legal_moves) ==
    LET max_bits == Log2Floor(Len(legal_moves))
        remaining_bits == file_bits_count - file_bit_index
        bits_to_encode == BitsToEncode(max_bits, remaining_bits)
        bits == Slice(complete_binary, file_bit_index, file_bit_index + bits_to_encode)
        move_index == BitsToInt(bits)
    IN  IF move_index >= Len(legal_moves)
        THEN /\ EncodeRaise("Invalid move index calculated")
             /\ UNCHANGED <<engine, file_bit_index, chunks, chess_board, output_pgns,
                            base_seed, move_random, drawn, game_number, picked>>
        ELSE LET chosen_move == Shuffle(move_random, legal_moves)[move_index + 1]
                 board == Append(chess_board, chosen_move)
                 index == NextCursor(file_bit_index, bits_to_encode)
             IN  \E eng \in Reach(board), seed \in DrawChoices :
                     /\ engine' = eng
                     /\ file_bit_index' = index
                     /\ chunks' = Append(chunks, bits)
                     /\ picked' = Picked(Ply(Len(legal_moves), move_random,
                                             Advance(move_random, Len(legal_moves)),
                                             TRUE, move_index, chosen_move,
                                             file_bit_index, index),
                                         should_end_game(eng, board)
                                             /\ index < file_bits_count)
                     /\ IF should_end_game(eng, board)
                        THEN IF index < file_bits_count
                             THEN NewGame(board, seed)
                             ELSE /\ output_pgns' = Append(output_pgns,
                                      create_game_record(board, base_seed, expiry_time,
                                          GameHeaders(custom_headers, game_number)))
                                  /\ chess_board' = board
                                  /\ move_random' = Advance(move_random, Len(legal_moves))
                                  /\ UNCHANGED <<base_seed, drawn, game_number>>
                        ELSE /\ chess_board' = board
                             /\ move_random' = Advance(move_random, Len(legal_moves))
                             /\ UNCHANGED <<output_pgns, base_seed, drawn, game_number>>
                     /\ UNCHANGED <<epc, eerr>>

\* encode.py:102-158: one iteration of the loop.
EncodeStep ==
    /\ epc = "loop"
    /\ file_bit_index < file_bits_count
    /\ LET legal_moves == LegalMoves(engine, chess_board)
       IN  IF Len(legal_moves) <= 1 THEN ForcedStep(legal_moves) ELSE BitStep(legal_moves)
    /\ UNCHANGED <<envVars, decVars, pgnFile, outFile, complete_binary, expiry_time>>

\* encode.py:160-172: the games to write once the loop has ended.
FinalGames ==
    IF Len(chess_board) > 0
    THEN Append(output_pgns,
             create_game_record(chess_board, base_seed, expiry_time,
                                GameHeaders(custom_headers, game_number)))
    ELSE output_pgns

\* encode.py:160-198: save the last game, write the file, read it back.
EncodeFinish ==
    /\ epc = "loop"
    /\ file_bit_index >= file_bits_count
    /\ output_pgns' = FinalGames
    /\ pgnFile' = <<FinalGames>>
    /\ epc' = "done"
    /\ UNCHANGED <<envVars, decVars, outFile, engine, drawn, eerr, complete_binary,
                   file_bit_index, chess_board, base_seed, move_random, game_number,
                   expiry_time, chunks, picked>>

\* encode.py:177-178: open(output_pgn_path, "w") creates or empties the file
\* and the write fails (OSError); what stays is the emptied file.
EncodeWriteFails ==
    /\ epc = "loop"
    /\ file_bit_index >= file_bits_count
    /\ limits.faults
    /\ output_pgns' = FinalGames
    /\ pgnFile' = << <<>> >>
    /\ EncodeRaise("write failed")
    /\ UNCHANGED <<envVars, decVars, outFile, engine, drawn, complete_binary,
                   file_bit_index, chess_board, base_seed, move_random, game_number,
                   expiry_time, chunks, picked>>

\* encode.py:182-183: the file is written and reading it back fails.
EncodeReadBackFails ==
    /\ epc = "loop"
    /\ file_bit_index >= file_bits_count
    /\ limits.faults
    /\ output_pgns' = FinalGames
    /\ pgnFile' = <<FinalGames>>
    /\ EncodeRaise("read back failed")
    /\ UNCHANGED <<envVars, decVars, outFile, engine, drawn, complete_binary,
                   file_bit_index, chess_board, base_seed, move_random, game_number,
                   expiry_time, chunks, picked>>

(* ------------------------------- decode ------------------------------- *)

\* pgn.read_game until it returns None: the game records of the text; what
\* is no game record (a comment line) is skipped.
ReadGames(content) == SelectSeq(content, LAMBDA item : item.kind = "game")

\* As DecodeRaise, the output file left as it is.
DecodeRaiseKeep(msg) ==
    /\ dpc' = "failed"
    /\ derr' = msg
    /\ outFile' = outFile

\* decode.py:149-152: every exception removes the output file and is raised
\* again as "Decoding failed: ...".
DecodeRaise(msg) ==
    /\ dpc' = "failed"
    /\ derr' = msg
    /\ outFile' = <<>>

\* As Expired, the deadline itself counted as passed.
ExpiredAtDeadline(time, expiry) == time >= expiry

\* decode.py:39
Expired(time, expiry) == time > expiry

\* decode.py:40-46
TimeMsg(time_diff) ==
    IF time_diff < 60 THEN <<time_diff, "seconds">>
    ELSE IF time_diff < 3600 THEN <<time_diff \div 60, "minutes">>
    ELSE <<time_diff \div 3600, "hours">>

\* As FirstGame, the last game of the Game Set.
LastGame(read) == read[Len(read)]

\* decode.py:35-36: games[0], the game whose headers hold the expiry.
FirstGame(read) == read[1]

\* decode.py:10-59: read and parse the file, check the expiry, remove an
\* existing output file.
DecodeBegin ==
    /\ dpc = "idle"
    /\ epc \in {"done", "failed"}
    /\ game_index' = 0
    /\ all_bits' = <<>>
    /\ emitted' = <<>>
    /\ found' = <<>>
    /\ IF Len(pgnFile) = 0
       THEN /\ DecodeRaise(<<"Input PGN file does not exist">>)
            /\ UNCHANGED <<games, current_time>>
       ELSE IF Len(pgnFile[1]) = 0
       THEN /\ DecodeRaise(<<"Input PGN file is empty">>)
            /\ UNCHANGED <<games, current_time>>
       ELSE IF Len(ReadGames(pgnFile[1])) = 0
       THEN /\ DecodeRaise(<<"No valid chess games found in PGN file">>)
            /\ games' = <<>>
            /\ UNCHANGED current_time
       ELSE /\ games' = ReadGames(pgnFile[1])
            /\ current_time' = now
            /\ LET headers == FirstGame(games').headers
               IN  IF "ExpiryTime" \notin DOMAIN headers
                   THEN /\ dpc' = "extract"
                        /\ outFile' = <<>>
                        /\ UNCHANGED derr
                   ELSE IF ~IsInt(headers["ExpiryTime"])
                   THEN DecodeRaise(<<"invalid literal for int()">>)
                   ELSE IF Expired(now, ParseInt(headers["ExpiryTime"]))
                   THEN DecodeRaise(<<"This file has expired">>
                            \o TimeMsg(now - ParseInt(headers["ExpiryTime"])))
                   ELSE /\ dpc' = "extract"
                        /\ outFile' = <<>>
                        /\ UNCHANGED derr
    /\ UNCHANGED <<envVars, encVars, pgnFile, engine, drawn>>

\* As IndexOf, a move that is not in the list taken for the first of the
\* list (no ValueError).
IndexOfOrFirst(legal_moves, move) ==
    IF \E i \in 1..Len(legal_moves) : legal_moves[i] = move
    THEN (CHOOSE i \in 1..Len(legal_moves) :
              /\ legal_moves[i] = move
              /\ \A j \in 1..(i - 1) : legal_moves[j] # move) - 1
    ELSE 0

\* [m.uci() for m in legal_moves].index(move.uci()), 0-based; -1 for the
\* ValueError of a move that is not in the list.
IndexOf(legal_moves, move) ==
    IF \E i \in 1..Len(legal_moves) : legal_moves[i] = move
    THEN (CHOOSE i \in 1..Len(legal_moves) :
              /\ legal_moves[i] = move
              /\ \A j \in 1..(i - 1) : legal_moves[j] # move) - 1
    ELSE -1

\* As is_forced, the only legal move looked up as any other.
is_forced_none(legal_moves) == Len(legal_moves) = 0

\* decode.py:76: the position has no choice to make.
is_forced(legal_moves) == Len(legal_moves) <= 1

RECURSIVE Replay(_, _, _, _, _, _)
\* decode.py:73-93: replay the moves of one game from the i-th on; bits is
\* the list of the bit strings emitted so far, trace what was done at each
\* ply so far.  bad is the move that was not found, if any.
Replay(moves, i, board, rng, bits, trace) ==
    IF i > Len(moves) THEN [ok |-> TRUE, bits |-> bits, bad |-> -1, trace |-> trace]
    ELSE LET move == moves[i]
             legal_moves == LegalMoves(engine, board)
             n == Len(legal_moves)
         IN  IF is_forced(legal_moves)
             THEN Replay(moves, i + 1, Append(board, move), rng, bits,
                         Append(trace, Ply(n, rng, rng, FALSE, -1, move, 0, 0)))
             ELSE LET list == Shuffle(rng, legal_moves)
                      move_index == IndexOf(list, move)
                      max_bits == Log2Floor(n)
                      entry == Ply(n, rng, Advance(rng, n), TRUE, move_index, move, 0, 0)
                  IN  IF move_index < 0
                      THEN [ok |-> FALSE, bits |-> bits, bad |-> move,
                            trace |-> Append(trace, entry)]
                      ELSE Replay(moves, i + 1, Append(board, move), Advance(rng, n),
                                  IF max_bits > 0
                                  THEN Append(bits, Format(move_index, max_bits))
                                  ELSE bits,
                                  Append(trace, entry))

\* decode.py:64-93: one game of the loop over the games.
DecodeGame ==
    /\ dpc = "extract"
    /\ game_index < Len(games)
    /\ LET game == games[game_index + 1]
           seed == IF "Seed" \in DOMAIN game.headers THEN game.headers["Seed"] ELSE <<"1">>
       IN  IF ~IsInt(seed)
           THEN /\ DecodeRaise(<<"Invalid seed in game", game_index + 1>>)
                /\ UNCHANGED <<all_bits, emitted, found, game_index>>
           ELSE LET r == Replay(game.moves, 1, <<>>, Random(ParseInt(seed)), <<>>, <<>>)
                IN  /\ all_bits' = all_bits \o Flatten(r.bits)
                    /\ emitted' = emitted \o r.bits
                    /\ found' = IF limits.history THEN Append(found, r.trace) ELSE found
                    /\ IF r.ok
                       THEN /\ game_index' = game_index + 1
                            /\ UNCHANGED <<dpc, derr, outFile>>
                       ELSE /\ DecodeRaise(<<"Invalid move found in game",
                                             game_index + 1, r.bad>>)
                            /\ UNCHANGED game_index
    /\ UNCHANGED <<envVars, encVars, pgnFile, engine, drawn, current_time, games>>

\* Where pattern occurs in bits, 0-based.
Occurrences(bits, pattern) ==
    {i \in 0..(Len(bits) - Len(pattern)) : SubSeq(bits, i + 1, i + Len(pattern)) = pattern}

\* As Find, the last occurrence taken (rfind in place of find).
FindLast(bits, pattern) ==
    LET at == Occurrences(bits, pattern)
    IN  IF at = {} THEN -1 ELSE CHOOSE i \in at : \A j \in at : i >= j

\* str.find
Find(bits, pattern) ==
    LET at == Occurrences(bits, pattern)
    IN  IF at = {} THEN -1 ELSE CHOOSE i \in at : \A j \in at : i <= j

\* As RFind, the first occurrence taken (find in place of rfind).
RFindFirst(bits, pattern) == Find(bits, pattern)

\* str.rfind
RFind(bits, pattern) ==
    LET at == Occurrences(bits, pattern)
    IN  IF at = {} THEN -1 ELSE CHOOSE i \in at : \A j \in at : i >= j

\* decode.py:133-137: the bytes of the whole groups of 8 bits.
BytesOf(data_bits) ==
    [i \in 1..(Len(data_bits) \div 8) |-> BitsToInt(SubSeq(data_bits, 8 * i - 7, 8 * i))]

\* decode.py:102-129: the data bits between the markers; err is the error
\* raised, "" for none.
ParseFrame(bits) ==
    LET start_index == Find(bits, START_MARKER)
        end_index == RFind(bits, END_MARKER)
        data_start == start_index + Len(START_MARKER)
        between == Slice(bits, data_start, end_index)
        data_bits == SubSeq(between, 1, Len(between) - (Len(between) % 8))
    IN  IF start_index = -1
        THEN [err |-> "Start marker not found in decoded data", data |-> <<>>]
        ELSE IF end_index = -1 \/ end_index <= data_start
        THEN [err |-> "End marker not found in decoded data", data |-> <<>>]
        ELSE IF Len(data_bits) = 0
        THEN [err |-> "No data found between markers", data |-> <<>>]
        ELSE [err |-> "", data |-> data_bits]

\* decode.py:95-147: find the markers, write the bytes, check the file.
DecodeParse ==
    /\ dpc = "extract"
    /\ game_index >= Len(games)
    /\ LET frame == ParseFrame(all_bits)
       IN  IF frame.err # ""
           THEN DecodeRaise(<<frame.err>>)
           ELSE IF Len(BytesOf(frame.data)) = 0
           THEN DecodeRaise(<<"Decoded output file is empty">>)
           ELSE /\ outFile' = <<BytesOf(frame.data)>>
                /\ dpc' = "done"
                /\ UNCHANGED derr
    /\ UNCHANGED <<envVars, encVars, pgnFile, engine, drawn, current_time, games,
                   game_index, all_bits, emitted, found>>

\* decode.py:132-137: the output file is opened and a write fails (OSError);
\* the handler removes what was written.
DecodeWriteFails ==
    /\ dpc = "extract"
    /\ game_index >= Len(games)
    /\ limits.faults
    /\ ParseFrame(all_bits).err = ""
    /\ DecodeRaise(<<"write failed">>)
    /\ UNCHANGED <<envVars, encVars, pgnFile, engine, drawn, current_time, games,
                   game_index, all_bits, emitted, found>>

(* ----------------------------- environment ---------------------------- *)

\* A second passes.
Tick ==
    /\ now < MaxTime
    /\ now' = now + 1
    /\ UNCHANGED <<inFile, limits, seed_source, self_destruct_timer, custom_headers,
                   previous, files, requests, encVars, decVars, pgnFile, outFile,
                   engine, drawn>>

\* A second passes between the return of encode and the call of decode.
Wait ==
    /\ epc \in {"done", "failed"}
    /\ dpc = "idle"
    /\ Tick

\* A line of PGN text that is no game (a '%' comment line).
CommentLine == [kind |-> "comment", headers |-> Empty, moves |-> <<>>]

\* A move no position of the model has.
ForeignMove == InitialMoves + 79

WithHeaders(game, headers) == [game EXCEPT !.headers = headers]

Without(headers, key) == [k \in DOMAIN headers \ {key} |-> headers[k]]

\* Game Sets that differ from the Game Set content in one place: what a
\* client can upload to /decode in place of what /encode returned.
Altered(content) ==
    LET n == Len(content)
        last == content[n]
        plies == Len(last.moves)
    IN  {<<CommentLine>>,
         [content EXCEPT ![1] = WithHeaders(@, ("Seed" :> <<"x">>) @@ @.headers)],
         [content EXCEPT ![1] = WithHeaders(@, Without(@.headers, "Seed"))],
         [content EXCEPT ![1] = WithHeaders(@, ("ExpiryTime" :> <<"x">>) @@ @.headers)],
         [content EXCEPT ![1] = [@ EXCEPT !.moves = <<>>]],
         [content EXCEPT ![n] = [@ EXCEPT !.moves = SubSeq(@, 1, plies - 1)]],
         [content EXCEPT ![n] = [@ EXCEPT !.moves[plies] = ForeignMove]]}

\* The file encode wrote is replaced by an altered one before decode reads it.
Tamper ==
    /\ epc = "done"
    /\ dpc = "idle"
    /\ pgnFile = <<output_pgns>>
    /\ \E content \in Altered(output_pgns) : pgnFile' = <<content>>
    /\ UNCHANGED <<envVars, encVars, decVars, outFile, engine, drawn>>

\* Indexes a crafted move has in the shuffled list of its position: decode
\* emits 0000, 0101, 1010, 1111 and, for 16, the five bits 10000.
ChunkIndexes == {0, 5, 10, 15, 16}

RECURSIVE CraftedMoves(_, _, _, _)
\* The moves of a game, made from the k-th index on, that decode replays to
\* the given indexes: each move is the one at its index in the list decode
\* shuffles at its position (decode.py:80-83).
CraftedMoves(indexes, k, board, rng) ==
    IF k > Len(indexes) THEN board
    ELSE LET legal_moves == LegalMoves(engine, board)
             move == Shuffle(rng, legal_moves)[indexes[k] + 1]
         IN  CraftedMoves(indexes, k + 1, Append(board, move),
                          Advance(rng, Len(legal_moves)))

\* A game of the given moves with the Seed header 1 and no expiry.
CraftedGame(moves) ==
    [kind |-> "game", headers |-> default_headers @@ ("Seed" :> <<"1">>), moves |-> moves]

\* Game Sets a client uploads to /decode: one game of up to MaxChunks moves.
Uploads ==
    {<<CraftedGame(CraftedMoves(indexes, 1, <<>>, Random(1)))>> :
        indexes \in UNION {[1..n -> ChunkIndexes] : n \in 0..MaxChunks}}

\* Game Sets of two games of three moves, one move or two of which are no
\* legal move of their position.
ForeignUploads ==
    LET good == CraftedMoves(<<10, 0, 5>>, 1, <<>>, Random(1))
        bad == {[good EXCEPT ![k] = ForeignMove] : k \in 1..Len(good)}
    IN  {<<CraftedGame(first), CraftedGame(second)>> :
            first \in {good} \cup bad, second \in bad}
        \cup {<<CraftedGame(first), CraftedGame(good)>> : first \in bad}

\* A client uploads a Game Set of its own making to /decode.
Upload ==
    /\ epc = "done"
    /\ dpc = "idle"
    /\ pgnFile = <<output_pgns>>
    /\ \E content \in Uploads \cup ForeignUploads : pgnFile' = <<content>>
    /\ UNCHANGED <<envVars, encVars, decVars, outFile, engine, drawn>>

\* ExpiryTime headers a client gives a game: none (<<>>), a time long past,
\* a time to come, a text that is no number.
Stamps == {<<>>, << <<"0">> >>, << <<"9">> >>, << <<"x">> >>}

\* The game with the ExpiryTime header of the stamp, or with none.
Stamped(game, stamp) ==
    WithHeaders(game, IF Len(stamp) = 0 THEN Without(game.headers, "ExpiryTime")
                      ELSE ("ExpiryTime" :> stamp[1]) @@ game.headers)

\* The Game Set with its games after the first stamped each with its stamp.
Restamped(content, stamps) ==
    [i \in 1..Len(content) |-> IF i = 1 THEN content[1] ELSE Stamped(content[i], stamps[i])]

\* A client changes the ExpiryTime headers of the games after the first in
\* the Game Set of two or more games that it uploads to /decode.
Restamp ==
    /\ epc = "done"
    /\ dpc = "idle"
    /\ Len(pgnFile) = 1
    /\ Len(pgnFile[1]) >= 2
    /\ \E stamps \in [2..Len(pgnFile[1]) -> Stamps] :
           /\ Restamped(pgnFile[1], stamps) # pgnFile[1]
           /\ pgnFile' = <<Restamped(pgnFile[1], stamps)>>
    /\ UNCHANGED <<envVars, encVars, decVars, outFile, engine, drawn>>

\* decode has returned and is called a second time: what it produced is
\* kept for comparison.
DecodeAgain ==
    /\ dpc \in {"done", "failed"}
    /\ previous = <<>>
    /\ previous' = <<[dpc |-> dpc, derr |-> derr, outFile |-> outFile,
                      all_bits |-> all_bits, time |-> current_time, games |-> games]>>
    /\ dpc' = "idle"
    /\ UNCHANGED <<now, inFile, limits, seed_source, self_destruct_timer, custom_headers,
                   files, requests, encVars, derr, current_time, games, game_index,
                   all_bits, emitted, found, pgnFile, outFile, engine, drawn>>

\* Timers a caller passes to encode.
Timers == {<<>>, <<1>>, <<2>>}

\* encode is called a second time on the same input file with the same
\* custom headers, and random.randint returns the same seeds again.
EncodeAgain ==
    /\ epc = "done"
    /\ dpc = "idle"
    /\ previous = <<>>
    /\ previous' = <<[pgns |-> output_pgns, expiry |-> expiry_time]>>
    /\ seed_source' = drawn
    /\ drawn' = <<>>
    /\ epc' = "idle"
    /\ self_destruct_timer' \in Timers
    /\ UNCHANGED <<now, inFile, limits, custom_headers, files, requests, eerr,
                   complete_binary, file_bit_index, chess_board, base_seed, move_random,
                   game_number, output_pgns, expiry_time, chunks, picked, decVars,
                   pgnFile, outFile, engine>>

(* ------------------------------ service ------------------------------ *)

Requests == 1..MaxRequests

\* No path: the request has not computed its output path yet.
NoPath == [folder |-> "", suffix |-> <<>>, name |-> ""]

\* A request that has not been received.
NewRequest == [pc |-> "new", kind |-> "", output_path |-> NoPath, received |-> <<>>]

\* main.py:164-168: os.path.join(OUTPUT_FOLDER, f"{unique_suffix}_encoded_output.pgn")
EncodeOutputPath(unique_suffix) ==
    [folder |-> "outputs", suffix |-> <<unique_suffix>>, name |-> "encoded_output.pgn"]

\* main.py:323-326: os.path.join(OUTPUT_FOLDER, f"decoded_output.{output_extension}")
DecodeOutputPath(file_type) ==
    [folder |-> "outputs", suffix |-> <<>>,
     name |-> IF file_type = "text" THEN "decoded_output.txt" ELSE "decoded_output.png"]

\* uuid4().hex: a suffix no request has been given.
FreshSuffixes ==
    {u \in Requests : \A r \in Requests : requests[r].output_path.suffix # <<u>>}

\* open(path, "w") and write: the file at path holds content.
WriteFile(fs, path, content) == (path :> content) @@ fs

\* os.remove(path) if os.path.exists(path)
RemoveFile(fs, path) == [p \in DOMAIN fs \ {path} |-> fs[p]]

\* main.py:129-171: /encode is received and validated, its paths are made,
\* up to the await of the upload.
ReceiveEncode(r) ==
    /\ requests[r].pc = "new"
    /\ \E unique_suffix \in FreshSuffixes :
           requests' = [requests EXCEPT ![r] = [pc |-> "accepted", kind |-> "encode",
                            output_path |-> EncodeOutputPath(unique_suffix),
                            received |-> <<>>]]
    /\ UNCHANGED <<codecVars, files>>

\* main.py:266-298: /decode is received and validated, up to the await of
\* the upload; the output path follows from the file type alone (323-326).
ReceiveDecode(r) ==
    /\ requests[r].pc = "new"
    /\ \E file_type \in {"text", "image"} :
           requests' = [requests EXCEPT ![r] = [pc |-> "accepted", kind |-> "decode",
                            output_path |-> DecodeOutputPath(file_type),
                            received |-> <<>>]]
    /\ UNCHANGED <<codecVars, files>>

\* main.py:172-244: the rest of handle_encode, which runs without a break:
\* encode writes the Game Set of this request to the output path
\* (encode.py:177-178) and the handler returns the FileResponse; or encode
\* fails, before the write or after it, and the handler raises.
HandleEncode(r) ==
    /\ requests[r].pc = "accepted"
    /\ requests[r].kind = "encode"
    /\ \/ /\ files' = WriteFile(files, requests[r].output_path, r)
          /\ requests' = [requests EXCEPT ![r].pc = "returned"]
       \/ /\ files' \in {files, WriteFile(files, requests[r].output_path, r)}
          /\ requests' = [requests EXCEPT ![r].pc = "error"]
    /\ UNCHANGED codecVars

\* main.py:299-360: the rest of handle_decode, which runs without a break:
\* decode removes a file at the output path (decode.py:58-59) and writes the
\* payload of this request there (132-137), and the handler returns the
\* FileResponse; or decode fails, its handler removes the file at the output
\* path (50-51, 149-151), and the handler raises.
HandleDecode(r) ==
    /\ requests[r].pc = "accepted"
    /\ requests[r].kind = "decode"
    /\ \/ /\ files' = WriteFile(RemoveFile(files, requests[r].output_path),
                                 requests[r].output_path, r)
          /\ requests' = [requests EXCEPT ![r].pc = "returned"]
       \/ /\ files' = RemoveFile(files, requests[r].output_path)
          /\ requests' = [requests EXCEPT ![r].pc = "error"]
    /\ UNCHANGED codecVars

\* main.py:240-244 and 356-360: the FileResponse the handler returned is sent
\* after the handler has returned: the file then at the path goes to the
\* client, and a missing file is an error.
SendFile(r) ==
    /\ requests[r].pc = "returned"
    /\ IF requests[r].output_path \in DOMAIN files
       THEN requests' = [requests EXCEPT ![r].pc = "sent",
                                         ![r].received = <<files[requests[r].output_path]>>]
       ELSE requests' = [requests EXCEPT ![r].pc = "error"]
    /\ UNCHANGED <<codecVars, files>>

(* --------------------------- specifications --------------------------- *)

\* Before encode and decode are called.
Idle ==
    /\ files = [p \in {} |-> 0]
    /\ requests = [r \in Requests |-> NewRequest]
    /\ epc = "idle"
    /\ eerr = ""
    /\ complete_binary = <<>>
    /\ file_bit_index = 0
    /\ chess_board = <<>>
    /\ base_seed = 0
    /\ move_random = 0
    /\ game_number = 1
    /\ output_pgns = <<>>
    /\ expiry_time = <<>>
    /\ chunks = <<>>
    /\ picked = <<>>
    /\ found = <<>>
    /\ dpc = "idle"
    /\ derr = <<>>
    /\ current_time = 0
    /\ games = <<>>
    /\ game_index = 0
    /\ all_bits = <<>>
    /\ emitted = <<>>
    /\ drawn = <<>>
    /\ previous = <<>>
    /\ engine = (<<>> :> [n |-> InitialMoves, st |-> "play"])

\* The codec: a payload is encoded with no timer and no custom header and
\* the written Game Set is decoded; the engine answers freely.
Init ==
    /\ Idle
    /\ now = 0
    /\ inFile \in {<<p>> : p \in Payloads}
    /\ pgnFile = <<>>
    /\ outFile = <<>>
    /\ limits = [counts |-> LegalCounts, forced |-> MaxForced, terminal |-> MaxTerminal,
                 faults |-> FALSE, stale |-> FALSE,
                 history |-> FALSE]
    /\ seed_source = <<>>
    /\ self_destruct_timer = <<>>
    /\ custom_headers = Empty

Next ==
    \/ EncodeBegin
    \/ EncodeStep
    \/ EncodeFinish
    \/ DecodeBegin
    \/ DecodeGame
    \/ DecodeParse

Spec == Init /\ [][Next]_vars

\* encode alone.
NextEncode ==
    \/ EncodeBegin
    \/ EncodeStep
    \/ EncodeFinish

SpecEncode == Init /\ [][NextEncode]_vars

\* Custom headers a caller passes to encode.
CustomChoices == {Empty, ("Round" :> <<"9">>) @@ ("Event" :> <<"T">>)}

\* A file left at the output path by an earlier call.
StalePgn == <<CommentLine>>
StaleOut == <<0>>

\* Errors and expiry: the input file may be missing or empty, files may
\* already be at the output paths, writes may fail, the clock runs, and the
\* file decode reads may differ from what encode wrote.  The engine reports
\* neither forced moves nor terminal positions.
InitIO ==
    /\ Idle
    /\ now = 0
    /\ inFile \in {<<>>, << <<>> >>} \cup {<<p>> : p \in Payloads}
    /\ limits \in {[counts |-> LegalCounts, forced |-> 0, terminal |-> 0,
                     faults |-> TRUE, stale |-> b, history |-> FALSE] : b \in BOOLEAN}
    /\ pgnFile = IF limits.stale THEN <<StalePgn>> ELSE <<>>
    /\ outFile = IF limits.stale THEN <<StaleOut>> ELSE <<>>
    /\ seed_source = <<>>
    /\ self_destruct_timer \in Timers
    /\ custom_headers = Empty

NextIO ==
    \/ EncodeBegin
    \/ EncodeStep
    \/ EncodeFinish
    \/ EncodeWriteFails
    \/ EncodeReadBackFails
    \/ Tamper
    \/ Wait
    \/ DecodeBegin
    \/ DecodeGame
    \/ DecodeParse
    \/ DecodeWriteFails

SpecIO == InitIO /\ [][NextIO]_vars

\* Two runs of encode on the same input: the clock runs, the caller picks a
\* timer for each run, the second run is given the seeds of the first.  Every
\* position has as many legal moves as the initial one.
InitTwice ==
    /\ Idle
    /\ now = 0
    /\ inFile \in {<<p>> : p \in Payloads}
    /\ limits = [counts |-> {InitialMoves}, forced |-> 0, terminal |-> MaxTerminal,
                 faults |-> FALSE, stale |-> FALSE,
                 history |-> FALSE]
    /\ pgnFile = <<>>
    /\ outFile = <<>>
    /\ seed_source = <<>>
    /\ self_destruct_timer \in Timers
    /\ custom_headers \in CustomChoices

NextTwice ==
    \/ EncodeBegin
    \/ EncodeStep
    \/ EncodeFinish
    \/ EncodeAgain
    \/ Tick

SpecTwice == InitTwice /\ [][NextTwice]_vars

\* The frame: payloads of 1..MaxBytes bytes that carry the marker patterns
\* are encoded and the written Game Set is decoded; every position has as
\* many legal moves as the initial one and no game ends but by the ply cap.
InitFrame ==
    /\ Idle
    /\ now = 0
    /\ inFile \in {<<p>> : p \in FramePayloads}
    /\ pgnFile = <<>>
    /\ outFile = <<>>
    /\ limits = [counts |-> {InitialMoves}, forced |-> 0, terminal |-> 0,
                 faults |-> FALSE, stale |-> FALSE,
                 history |-> FALSE]
    /\ seed_source = <<>>
    /\ self_destruct_timer = <<>>
    /\ custom_headers = Empty

SpecFrame == InitFrame /\ [][Next]_vars

\* The parser: decode is given the Game Set encode wrote or one a client
\* made; every position has as many legal moves as the initial one.
InitParse ==
    /\ Idle
    /\ now = 0
    /\ inFile \in {<<p>> : p \in Payloads}
    /\ pgnFile = <<>>
    /\ outFile = <<>>
    /\ limits = [counts |-> {InitialMoves}, forced |-> 0, terminal |-> 0,
                 faults |-> FALSE, stale |-> FALSE,
                 history |-> FALSE]
    /\ seed_source = <<>>
    /\ self_destruct_timer = <<>>
    /\ custom_headers = Empty

NextParse ==
    \/ EncodeBegin
    \/ EncodeStep
    \/ EncodeFinish
    \/ Upload
    \/ DecodeBegin
    \/ DecodeGame
    \/ DecodeParse

SpecParse == InitParse /\ [][NextParse]_vars

\* Forced moves: as Init, with positions of one legal move or of as many as
\* the initial position.
InitForced ==
    /\ Idle
    /\ now = 0
    /\ inFile \in {<<p>> : p \in Payloads}
    /\ pgnFile = <<>>
    /\ outFile = <<>>
    /\ limits = [counts |-> {1, InitialMoves}, forced |-> MaxForced,
                 terminal |-> MaxTerminal, faults |-> FALSE, stale |-> FALSE,
                 history |-> TRUE]
    /\ seed_source = <<>>
    /\ self_destruct_timer = <<>>
    /\ custom_headers = Empty

SpecForced == InitForced /\ [][Next]_vars

\* The first game's expiry: a payload is encoded with a timer of a second or
\* with none, with the seeds 1, 2, 1, into one game or, one position being
\* terminal, into more; a client restamps the games after the first, the
\* clock runs, and decode is called, and called again.
InitStamp ==
    /\ Idle
    /\ now = 0
    /\ inFile \in {<<p>> : p \in Payloads}
    /\ pgnFile = <<>>
    /\ outFile = <<>>
    /\ limits = [counts |-> {InitialMoves}, forced |-> 0, terminal |-> 1,
                 faults |-> FALSE, stale |-> FALSE, history |-> FALSE]
    /\ seed_source = <<1, 2, 1>>
    /\ self_destruct_timer \in {<<>>, <<1>>}
    /\ custom_headers = Empty

NextStamp ==
    \/ EncodeBegin
    \/ EncodeStep
    \/ EncodeFinish
    \/ Restamp
    \/ Wait
    \/ DecodeBegin
    \/ DecodeGame
    \/ DecodeParse
    \/ DecodeAgain

SpecStamp == InitStamp /\ [][NextStamp]_vars

\* Timers encode is called with: none, one that is no time at all, a
\* negative one, a second.
ExpiryTimers == {<<>>, <<0>>, <<-1>>, <<1>>}

\* The expiry: encode alone, called with or without a timer, while the clock
\* runs; games end by a forced move into a finished game, by a terminal
\* position, by the ply cap or with the frame.
InitExpiry ==
    /\ Idle
    /\ now = 0
    /\ inFile \in {<<p>> : p \in Payloads}
    /\ pgnFile = <<>>
    /\ outFile = <<>>
    /\ limits = [counts |-> {1, InitialMoves}, forced |-> MaxForced,
                 terminal |-> MaxTerminal, faults |-> FALSE, stale |-> FALSE,
                 history |-> FALSE]
    /\ seed_source = <<>>
    /\ self_destruct_timer \in ExpiryTimers
    /\ custom_headers = Empty

NextExpiry ==
    \/ EncodeBegin
    \/ EncodeStep
    \/ EncodeFinish
    \/ Tick

SpecExpiry == InitExpiry /\ [][NextExpiry]_vars

\* The run of encode to its end: after the initial position, positions of
\* one legal move or of 2; a bounded number of positions with one legal
\* move, one position where the game ends; the seeds are 1.  encode, once
\* called, runs on.
InitLive ==
    /\ Idle
    /\ now = 0
    /\ inFile \in {<<p>> : p \in Payloads}
    /\ pgnFile = <<>>
    /\ outFile = <<>>
    /\ limits = [counts |-> {1, 2}, forced |-> MaxForced,
                 terminal |-> 1, faults |-> FALSE, stale |-> FALSE,
                 history |-> FALSE]
    /\ seed_source = <<1, 1, 1, 1, 1, 1>>
    /\ self_destruct_timer = <<>>
    /\ custom_headers = Empty

SpecLive == InitLive /\ [][NextEncode]_vars /\ WF_vars(NextEncode)

\* The steps of encode: positions of 2, of 8 or of as many legal moves as the
\* initial position, no game ending but by the ply cap; encode alone.
InitSteps ==
    /\ Idle
    /\ now = 0
    /\ inFile \in {<<p>> : p \in Payloads}
    /\ pgnFile = <<>>
    /\ outFile = <<>>
    /\ limits = [counts |-> {2, 8, InitialMoves}, forced |-> 0, terminal |-> 0,
                 faults |-> FALSE, stale |-> FALSE, history |-> TRUE]
    /\ seed_source = <<>>
    /\ self_destruct_timer = <<>>
    /\ custom_headers = Empty

SpecSteps == InitSteps /\ [][NextEncode]_vars

\* The service: requests are received and handled in any order, each
\* handler running without a break from the end of its upload to its return.
NextServe ==
    \/ \E r \in Requests : ReceiveEncode(r)
    \/ \E r \in Requests : ReceiveDecode(r)
    \/ \E r \in Requests : HandleEncode(r)
    \/ \E r \in Requests : HandleDecode(r)
    \/ \E r \in Requests : SendFile(r)

SpecServe == Init /\ [][NextServe]_vars

(* ------------------------- claims on the codec ------------------------ *)

\* The last element of a non-empty sequence.
Last(seq) == seq[Len(seq)]

\* decode has returned, with or without an error.
DecodeReturned == dpc \in {"done", "failed"}

\* C1: once decode has returned on the Game Set that encode wrote (no
\* expiry), it has succeeded and the output file holds exactly the bytes of
\* the input file.
C1_RoundTrip ==
    (epc = "done" /\ DecodeReturned) => (dpc = "done" /\ outFile = inFile)

\* decode has replayed every game of the Game Set.
AllReplayed == dpc # "idle" /\ Len(games) > 0 /\ game_index = Len(games)

\* C2: after decode has replayed all games of an encoder-produced Game Set,
\* the bit strings it emitted, move by move, are the chunks encode consumed,
\* and their concatenation is the frame.
C2_ExtractedBitsAreFrame ==
    (epc = "done" /\ AllReplayed) => (emitted = chunks /\ all_bits = complete_binary)

\* C3: a decode of an encoder-produced Game Set that completes without an
\* error has written exactly the payload.
C3_NoSilentCorruption ==
    (epc = "done" /\ dpc = "done") => outFile = inFile

\* The move encode played last.
LastPlayed(board, pgns) == IF Len(board) > 0 THEN Last(board) ELSE Last(Last(pgns).moves)

C4_Cursor ==
    epc \in {"loop", "done"} =>
        /\ 0 <= file_bit_index
        /\ file_bit_index <= file_bits_count
        /\ Flatten(chunks) = SubSeq(complete_binary, 1, file_bit_index)
        /\ epc = "done" => Flatten(chunks) = complete_binary

C4_Advance ==
    epc = "loop" =>
        /\ file_bit_index' >= file_bit_index
        /\ chunks' # chunks =>
            LET taken == Last(chunks')
                legal_moves == LegalMoves(engine, chess_board)
            IN  /\ Len(chunks') = Len(chunks) + 1
                /\ Len(taken) >= 1
                /\ file_bit_index' = file_bit_index + Len(taken)
                /\ LastPlayed(chess_board', output_pgns')
                       = Shuffle(move_random, legal_moves)[BitsToInt(taken) + 1]
        /\ chunks' = chunks => file_bit_index' = file_bit_index

\* C4: the bit cursor starts at 0, never decreases, never passes the end of
\* the frame and advances at each bit-carrying step by exactly the bits that
\* selected the move; the chunks taken so far are the frame up to the
\* cursor, and the whole frame when encode has finished.
C4_NoBitDroppedOrReused ==
    /\ []C4_Cursor
    /\ [][C4_Advance]_vars

\* C4 witness: encode has finished a frame that took several games, the last
\* chunk being shorter than the position allowed.
C4_Witness ==
    /\ epc = "done"
    /\ Len(output_pgns) >= 2
    /\ file_bit_index = file_bits_count
    /\ Len(Last(chunks)) < Log2Floor(InitialMoves)
    /\ Len(chunks) >= 5

\* C5: the Game Set encode wrote holds one record for each game played.
C5_OneRecordPerGame ==
    epc = "done" => (pgnFile = <<output_pgns>> /\ Len(output_pgns) = game_number)

\* C6: no game record holds more plies than the cap.
C6_PlyCap ==
    \A i \in 1..Len(output_pgns) : Len(output_pgns[i].moves) <= PlyCap

(* ---------------------- claims on errors and expiry ------------------- *)

\* decode has failed with the error msg.
DecodeError(msg) == dpc = "failed" /\ Len(derr) > 0 /\ derr[1] = msg

\* The first game decode read carries an ExpiryTime that is a number.
HasExpiry ==
    /\ Len(games) > 0
    /\ "ExpiryTime" \in DOMAIN games[1].headers
    /\ IsInt(games[1].headers["ExpiryTime"])

FirstExpiry == ParseInt(games[1].headers["ExpiryTime"])

\* C7: when the first game carries ExpiryTime E, decode fails with the
\* expired error exactly when the time it read is greater than E; it then
\* has replayed no move and extracted no bit, and no file is at the output
\* path.
C7_ExpiryGuard ==
    (dpc # "idle" /\ HasExpiry) =>
        /\ DecodeError("This file has expired") <=> current_time > FirstExpiry
        /\ DecodeError("This file has expired") =>
               /\ outFile = <<>>
               /\ game_index = 0
               /\ all_bits = <<>>
               /\ emitted = <<>>

\* C7 witness: decode one second after the expiry failed as expired, a file
\* having been at the output path before.
C7_Witness ==
    /\ DecodeError("This file has expired")
    /\ HasExpiry
    /\ current_time = FirstExpiry + 1
    /\ derr = <<"This file has expired", 1, "seconds">>
    /\ limits.stale
    /\ outFile = <<>>

\* C8: when decode has failed, no file is at the output path.
C8_NoOutputAfterDecodeError ==
    dpc = "failed" => outFile = <<>>

\* C8 witness: decode failed before it reached its own clean-up of the
\* output path, where a file was before the call.
C8_Witness ==
    /\ DecodeError("No valid chess games found in PGN file")
    /\ limits.stale
    /\ outFile = <<>>

\* C9: when encode has failed, no file is at the output path.
C9_NoOutputAfterEncodeError ==
    epc = "failed" => pgnFile = <<>>

(* ------------------------- claims on determinism ---------------------- *)

\* C10: a second run of encode on the same payload with the same custom
\* headers, the same seeds and the same expiry value produces the Game Set
\* of the first run.
C10_Determinism ==
    (Len(previous) > 0 /\ epc = "done" /\ expiry_time = previous[1].expiry) =>
        /\ output_pgns = previous[1].pgns
        /\ pgnFile = <<output_pgns>>

\* C10 witness: the second run, started a second later with a timer a second
\* shorter, has written the same two games.
C10_Witness ==
    /\ Len(previous) > 0
    /\ epc = "done"
    /\ expiry_time = <<2>>
    /\ self_destruct_timer = <<1>>
    /\ previous[1].expiry = <<2>>
    /\ Len(output_pgns) = 2
    /\ output_pgns = previous[1].pgns

(* --------------------------- claims on the frame ---------------------- *)

RECURSIVE Pow2(_)
Pow2(k) == IF k = 0 THEN 1 ELSE 2 * Pow2(k - 1)

\* encode has built the frame.
FrameBuilt == epc \in {"loop", "done"}

\* C11: the frame encode builds for a payload of n bytes is 1010, the 8n
\* payload bits (each byte most significant bit first, bytes in order),
\* zero bits of padding and 0101; its length is a multiple of 8 and the
\* padding is the smallest number in 0..7 that makes it so.
C11_Alignment ==
    FrameBuilt =>
        LET payload == inFile[1]
            n == Len(payload)
            frame == complete_binary
            padding == Len(frame) - 8 * n - 8
        IN  /\ padding \in 0..7
            /\ Len(frame) % 8 = 0
            /\ \A k \in 0..(padding - 1) : (8 * n + 8 + k) % 8 # 0
            /\ SubSeq(frame, 1, 4) = <<1, 0, 1, 0>>
            /\ \A i \in 1..n : \A j \in 0..7 :
                   frame[4 + 8 * (i - 1) + j + 1] = (payload[i] \div Pow2(7 - j)) % 2
            /\ \A k \in 1..padding : frame[4 + 8 * n + k] = 0
            /\ SubSeq(frame, Len(frame) - 3, Len(frame)) = <<0, 1, 0, 1>>

\* C11 witness: the frame of a payload of two bytes has been built, 24 bits.
C11_Witness ==
    /\ FrameBuilt
    /\ inFile = << <<165, 5>> >>
    /\ Len(complete_binary) = 24

(* ------------------------ claims on rejected input -------------------- *)

\* The input file is missing or holds no byte.
NoInput == Len(inFile) = 0 \/ Len(inFile[1]) = 0

\* C12: encode of a missing or zero-length input file fails with the input
\* error of its case; no seed has been drawn, no move played, no bit taken,
\* no game produced, and the file at the output path is what it was before
\* the call.
C12_EmptyInputRejected ==
    (NoInput /\ epc # "idle") =>
        /\ epc = "failed"
        /\ eerr = (IF Len(inFile) = 0 THEN "Input file does not exist"
                                      ELSE "Input file is empty")
        /\ drawn = <<>>
        /\ base_seed = 0
        /\ chess_board = <<>>
        /\ DOMAIN engine = {<<>>}
        /\ chunks = <<>>
        /\ file_bit_index = 0
        /\ complete_binary = <<>>
        /\ output_pgns = <<>>
        /\ pgnFile = (IF limits.stale THEN <<StalePgn>> ELSE <<>>)

\* C12 witness: encode of a zero-length file has failed, nothing being at
\* the output path.
C12_Witness ==
    /\ inFile = << <<>> >>
    /\ epc = "failed"
    /\ eerr = "Input file is empty"
    /\ pgnFile = <<>>

(* -------------------------- claims on the service --------------------- *)

\* C13: the output file a request has written is, until it is sent, at the
\* request's path and holds what the request wrote, and what the client
\* receives is what its own request wrote.
C13_OutputUndisturbed ==
    \A r \in Requests :
        /\ requests[r].pc = "returned" =>
               /\ requests[r].output_path \in DOMAIN files
               /\ files[requests[r].output_path] = r
        /\ requests[r].pc = "sent" => requests[r].received = <<r>>

(* ------------------------- claims on the generator -------------------- *)

\* The game the i-th record was made from (the last game is recorded twice
\* when its last move ended it).
GameOfRecord(i) == Min(i, game_number)

\* decode has begun on the file encode wrote.
DecodesWritten == epc = "done" /\ pgnFile = <<output_pgns>> /\ dpc # "idle"

\* The entry is that of a ply where one shuffle was made if the position
\* had two or more legal moves, and none otherwise.
ShuffledAsDue(entry) ==
    IF entry.n >= 2
    THEN entry.shuffled /\ entry.after = Advance(entry.rng, entry.n)
    ELSE ~entry.shuffled /\ entry.after = entry.rng

\* How many shuffles were made in the first k plies of a trace.
ShufflesBefore(trace, k) == Cardinality({j \in 1..k : trace[j].shuffled})

\* The moves of the first k plies of a trace.
MovesOf(trace, k) == [j \in 1..k |-> trace[j].move]

\* The list the k-th ply of a trace shuffled: the legal moves of the position
\* after its first k - 1 moves, shuffled by the generator of the ply.
ShuffledList(trace, k) ==
    Shuffle(trace[k].rng, LegalMoves(engine, MovesOf(trace, k - 1)))

\* C14: in every game decode has replayed of the Game Set encode wrote, both
\* sides start from the generator seeded with the game's seed, shuffle once
\* at the plies with two or more legal moves and not at the others; at each
\* ply the generators agree and have been advanced equally often, the
\* shuffled lists agree, and decode finds the move at the index encode
\* selected.
C14_LockStep ==
    DecodesWritten =>
        \A i \in 1..Len(found) :
            LET enc == picked[GameOfRecord(i)]
                dec == found[i]
                seed == ParseInt(games[i].headers["Seed"])
            IN  /\ Len(dec) = Len(enc)
                /\ Len(dec) > 0 => (dec[1].rng = Random(seed) /\ enc[1].rng = Random(seed))
                /\ \A k \in 1..Len(dec) :
                       /\ ShuffledAsDue(enc[k])
                       /\ ShuffledAsDue(dec[k])
                       /\ k > 1 => (enc[k].rng = enc[k - 1].after
                                     /\ dec[k].rng = dec[k - 1].after)
                       /\ ShufflesBefore(dec, k) = ShufflesBefore(enc, k)
                       /\ dec[k].n = enc[k].n
                       /\ dec[k].rng = enc[k].rng
                       /\ dec[k].shuffled =>
                              /\ ShuffledList(dec, k) = ShuffledList(enc, k)
                              /\ ShuffledList(dec, k)[dec[k].index + 1] = dec[k].move
                       /\ dec[k].index = enc[k].index
                       /\ dec[k].move = enc[k].move

\* C14 witness: decode has replayed two games of encode, one of them with a
\* forced move followed by a move that carries bits.
C14_Witness ==
    /\ DecodesWritten
    /\ Len(found) >= 2
    /\ Len(found) = Len(games)
    /\ \E i \in 1..Len(found) : \E k \in 1..(Len(found[i]) - 1) :
           /\ found[i][k].n = 1
           /\ found[i][k + 1].n >= 2
           /\ found[i][k + 1].index >= 0

(* ------------------------- claims on forced moves --------------------- *)

\* How many plies of the replayed games had two or more legal moves.
RECURSIVE ChoicePlies(_)
ChoicePlies(traces) ==
    IF Len(traces) = 0 THEN 0
    ELSE Cardinality({k \in 1..Len(Head(traces)) : Head(traces)[k].n >= 2})
             + ChoicePlies(Tail(traces))

\* A step of encode at a position with exactly one legal move plays that
\* move, takes no bit and leaves the generator of the game as it is (a game
\* the move ends is recorded with the move as its last).
C15_EncodeForced ==
    (epc = "loop" /\ file_bit_index < file_bits_count
         /\ Len(LegalMoves(engine, chess_board)) = 1) =>
        LET move == LegalMoves(engine, chess_board)[1]
        IN  /\ file_bit_index' = file_bit_index
            /\ chunks' = chunks
            /\ complete_binary' = complete_binary
            /\ IF Len(chess_board') > 0
               THEN /\ chess_board' = Append(chess_board, move)
                    /\ move_random' = move_random
                    /\ base_seed' = base_seed
               ELSE /\ Len(output_pgns') = Len(output_pgns) + 1
                    /\ Last(output_pgns').moves = Append(chess_board, move)

\* decode, at each ply of a game of encode where the position has exactly
\* one legal move, makes no shuffle, leaves its generator as it is and plays
\* the move encode played there, the only legal one, after the same moves;
\* the bit strings it has emitted are as many as the plies with a choice.
C15_DecodeForced ==
    DecodesWritten =>
        /\ \A i \in 1..Len(found) : \A k \in 1..Len(found[i]) :
               LET enc == picked[GameOfRecord(i)]
                   dec == found[i]
               IN  dec[k].n = 1 =>
                       /\ ~dec[k].shuffled
                       /\ ~enc[k].shuffled
                       /\ dec[k].index = -1
                       /\ dec[k].after = dec[k].rng
                       /\ enc[k].n = 1
                       /\ enc[k].to = enc[k].from
                       /\ enc[k].after = enc[k].rng
                       /\ MovesOf(dec, k) = MovesOf(enc, k)
                       /\ dec[k].move = LegalMoves(engine, MovesOf(dec, k - 1))[1]
        /\ Len(emitted) = ChoicePlies(found)
        /\ all_bits = Flatten(emitted)

\* C15: a position with exactly one legal move takes no bit and leaves the
\* generator alone in encode, emits no bit and leaves the generator alone in
\* decode, and the same move is played on both sides.
C15_ForcedMoves ==
    /\ [][C15_EncodeForced]_vars
    /\ []C15_DecodeForced

\* C15 witness: decode has replayed a game of encode whose second ply was
\* forced and whose later plies carried bits.
C15_Witness ==
    /\ DecodesWritten
    /\ Len(found) = Len(games)
    /\ Len(found[1]) >= 4
    /\ found[1][2].n = 1
    /\ found[1][3].index >= 0
    /\ Len(emitted) = ChoicePlies(found)
    /\ Len(emitted) >= 4

(* ---------------------- claims on the frame parser -------------------- *)

\* decode has returned from the parse of exactly the frame encode built.
ParsedTheFrame ==
    /\ DecodesWritten
    /\ DecodeReturned
    /\ game_index = Len(games)
    /\ all_bits = complete_binary

\* C16: decode's marker search and truncation, applied to exactly the frame
\* encode built for a payload, return the payload: the frame begins with the
\* first start marker, ends with the last end marker, the bits between are
\* the payload's, and decode writes the payload's bytes, whatever marker
\* patterns the payload holds.
C16_FrameRoundTrip ==
    ParsedTheFrame =>
        LET n == Len(inFile[1])
        IN  /\ dpc = "done"
            /\ outFile = inFile
            /\ SubSeq(all_bits, 1, 4) = <<1, 0, 1, 0>>
            /\ SubSeq(all_bits, Len(all_bits) - 3, Len(all_bits)) = <<0, 1, 0, 1>>
            /\ Len(all_bits) = 8 * n + 8
            /\ \A i \in 1..n : \A j \in 0..7 :
                   all_bits[4 + 8 * (i - 1) + j + 1] = (inFile[1][i] \div Pow2(7 - j)) % 2

\* C16 witness: the frame of the payload 10101010 00000101, which holds both
\* patterns and ends as the end marker does, has been parsed.
C16_Witness ==
    /\ ParsedTheFrame
    /\ inFile = << <<170, 5>> >>
    /\ Len(games) = 2
    /\ outFile = inFile

\* Where the pattern 1010 and where the pattern 0101 begin in the extracted
\* bits, 0-based.
StartsAt ==
    {i \in 0..(Len(all_bits) - 4) :
        all_bits[i + 1] = 1 /\ all_bits[i + 2] = 0 /\ all_bits[i + 3] = 1 /\ all_bits[i + 4] = 0}

EndsAt ==
    {i \in 0..(Len(all_bits) - 4) :
        all_bits[i + 1] = 0 /\ all_bits[i + 2] = 1 /\ all_bits[i + 3] = 0 /\ all_bits[i + 4] = 1}

FirstStart == CHOOSE i \in StartsAt : \A j \in StartsAt : i <= j

LastEnd == CHOOSE i \in EndsAt : \A j \in EndsAt : i >= j

\* C17: once decode has replayed all games and returned, it has failed with
\* the start-marker error exactly when 1010 does not occur in the extracted
\* bits; else with the end-marker error exactly when 0101 does not occur or
\* last begins at or before the bit after the first 1010; else with the
\* empty-data error exactly when fewer than 8 bits lie between the two; else
\* it has written the bits between them, less the trailing length mod 8, as
\* bytes of 8 bits, most significant bit first.
C17_ParseOutcome ==
    (AllReplayed /\ DecodeReturned) =>
        /\ DecodeError("Start marker not found in decoded data") <=> StartsAt = {}
        /\ StartsAt # {} =>
               /\ DecodeError("End marker not found in decoded data")
                      <=> (EndsAt = {} \/ LastEnd <= FirstStart + 4)
               /\ (EndsAt # {} /\ LastEnd > FirstStart + 4) =>
                      LET between == LastEnd - (FirstStart + 4)
                          count == between \div 8
                      IN  /\ DecodeError("No data found between markers") <=> between < 8
                          /\ between >= 8 =>
                                 /\ dpc = "done"
                                 /\ Len(outFile) = 1
                                 /\ Len(outFile[1]) = count
                                 /\ \A i \in 1..count :
                                        /\ outFile[1][i] \in 0..255
                                        /\ \A j \in 0..7 :
                                               (outFile[1][i] \div Pow2(7 - j)) % 2
                                                   = all_bits[FirstStart + 4 + 8 * (i - 1) + j + 1]

\* C17 witness: an uploaded game whose bits hold 9 bits between the markers
\* has been parsed to one byte.
C17_Witness ==
    /\ AllReplayed
    /\ dpc = "done"
    /\ pgnFile # <<output_pgns>>
    /\ Len(all_bits) = 17
    /\ LastEnd - (FirstStart + 4) = 9
    /\ Len(outFile[1]) = 1

(* ------------------------- claims on the move index ------------------- *)

\* floor(log2(n)) for n >= 1: the k with 2^k <= n < 2^(k+1).
WidthOf(n) == CHOOSE k \in 0..n : Pow2(k) <= n /\ n < Pow2(k + 1)

\* C18: at every step of encode at a position with n >= 2 legal moves the
\* bits taken are min(floor(log2(n)), bits left) many, at least 1, and the
\* number they form is less than n; the move played is the element at that
\* index of the shuffled list of the legal moves; encode never raises
\* 'Invalid move index calculated'.
C18_IndexInRange ==
    /\ eerr # "Invalid move index calculated"
    /\ epc # "failed"
    /\ \A g \in 1..Len(picked) : \A k \in 1..Len(picked[g]) :
           LET entry == picked[g][k]
               taken == SubSeq(complete_binary, entry.from + 1, entry.to)
           IN  entry.n >= 2 =>
                   /\ Len(taken) = Min(WidthOf(entry.n), Len(complete_binary) - entry.from)
                   /\ Len(taken) >= 1
                   /\ entry.index = BitsToInt(taken)
                   /\ entry.index >= 0
                   /\ entry.index < entry.n
                   /\ entry.shuffled
                   /\ Len(ShuffledList(picked[g], k)) = entry.n
                   /\ entry.move = ShuffledList(picked[g], k)[entry.index + 1]
    /\ (epc = "loop" /\ Len(picked) > 0) =>
           chess_board = MovesOf(Last(picked), Len(Last(picked)))

\* C18 witness: encode has finished after a step that took the 3 bits 101
\* at a position with 8 legal moves, a step that took the bit 1 at a position
\* with 2 legal moves, and a last step that took fewer bits than its position
\* allowed.
C18_Witness ==
    /\ epc = "done"
    /\ \E g \in 1..Len(picked) : \E k \in 1..Len(picked[g]) :
           /\ picked[g][k].n = 8
           /\ picked[g][k].index = 5
           /\ picked[g][k].to = picked[g][k].from + 3
    /\ \E g \in 1..Len(picked) : \E k \in 1..Len(picked[g]) :
           /\ picked[g][k].n = 2
           /\ picked[g][k].index = 1
    /\ \E g \in 1..Len(picked) : \E k \in 1..Len(picked[g]) :
           /\ picked[g][k].n >= 2
           /\ picked[g][k].to = Len(complete_binary)
           /\ picked[g][k].to - picked[g][k].from < WidthOf(picked[g][k].n)

(* ------------------------ claims on foreign moves --------------------- *)

\* The k-th move of the i-th game decode read is, at a position with two or
\* more legal moves, none of them.
IsForeign(i, k) ==
    LET legal_moves == LegalMoves(engine, SubSeq(games[i].moves, 1, k - 1))
    IN  /\ Len(legal_moves) >= 2
        /\ \A j \in 1..Len(legal_moves) : legal_moves[j] # games[i].moves[k]

\* The plies of the games decode read, as pairs of game and ply.
PliesRead == UNION {{<<i, k>> : k \in 1..Len(games[i].moves)} : i \in 1..Len(games)}

Before(p, q) == p[1] < q[1] \/ (p[1] = q[1] /\ p[2] < q[2])

\* The foreign moves no foreign move comes before.
FirstForeign ==
    {p \in PliesRead : IsForeign(p[1], p[2])
                          /\ \A q \in PliesRead : Before(q, p) => ~IsForeign(q[1], q[2])}

\* C19: decode never passes a foreign move; once it has returned on a Game
\* Set with one, it has failed with the error that names the game, counted
\* from 1, and the move; the bits it emitted are those of the plies before
\* the move, the games after were not replayed, and no file is at the output
\* path.  It fails with that error on no other Game Set.
C19_ForeignMoveAborts ==
    /\ dpc = "extract" =>
           \A p \in PliesRead : p[1] <= game_index => ~IsForeign(p[1], p[2])
    /\ DecodeError("Invalid move found in game") => FirstForeign # {}
    /\ (DecodeReturned /\ Len(games) > 0) =>
           \A p \in FirstForeign :
               /\ dpc = "failed"
               /\ derr = <<"Invalid move found in game", p[1], games[p[1]].moves[p[2]]>>
               /\ game_index = p[1] - 1
               /\ Len(emitted) = Cardinality({q \in PliesRead : Before(q, p)})
               /\ all_bits = Flatten(emitted)
               /\ outFile = <<>>

\* C19 witness: decode of two games has failed at the second of the three
\* moves of the first.
C19_Witness ==
    /\ derr = <<"Invalid move found in game", 1, ForeignMove>>
    /\ dpc = "failed"
    /\ Len(games) = 2
    /\ Len(games[1].moves) = 3
    /\ games[1].moves[2] = ForeignMove
    /\ ~IsForeign(2, 1)
    /\ Len(emitted) = 1
    /\ outFile = <<>>

(* ------------------------- claims on the expiry ----------------------- *)

\* encode was called with a timer greater than 0.
TimerGiven == Len(self_destruct_timer) > 0 /\ self_destruct_timer[1] > 0

\* The record carries the expiry encode holds, or none when it holds none.
CarriesExpiry(record) ==
    IF Len(expiry_time) > 0
    THEN /\ "ExpiryTime" \in DOMAIN record.headers
         /\ IsInt(record.headers["ExpiryTime"])
         /\ ParseInt(record.headers["ExpiryTime"]) = expiry_time[1]
    ELSE "ExpiryTime" \notin DOMAIN record.headers

\* encode fixes the expiry when it begins, as the time then plus the timer
\* if a timer greater than 0 was given and as none otherwise, before any
\* move is played, and does not change it afterwards.
C20_Once ==
    /\ (epc = "idle" /\ epc' = "loop") =>
           /\ expiry_time' = (IF TimerGiven THEN <<now + self_destruct_timer[1]>> ELSE <<>>)
           /\ chess_board' = <<>>
           /\ output_pgns' = <<>>
    /\ epc = "loop" => expiry_time' = expiry_time

\* Every record encode has made, and every record it has written, carries
\* the expiry; without a timer greater than 0 there is no expiry.
C20_Stamped ==
    FrameBuilt =>
        /\ TimerGiven <=> Len(expiry_time) > 0
        /\ \A i \in 1..Len(output_pgns) : CarriesExpiry(output_pgns[i])
        /\ epc = "done" =>
               /\ Len(pgnFile) = 1
               /\ \A i \in 1..Len(pgnFile[1]) : CarriesExpiry(pgnFile[1][i])

\* C20: encode computes the expiry once, before the first move, as the
\* current time plus the timer when a timer greater than 0 is given, and
\* every Game record carries that value; with no timer or a timer <= 0 no
\* record carries an ExpiryTime.
C20_ExpiryOnce ==
    /\ [][C20_Once]_vars
    /\ []C20_Stamped

\* C20 witness: encode, called at time 0 with a timer of 1, has written at
\* time 2 a first game that a forced move ended and a last game, both with
\* the expiry 1.
C20_Witness ==
    /\ epc = "done"
    /\ now = 2
    /\ expiry_time = <<1>>
    /\ Len(output_pgns) = 2
    /\ Len(output_pgns[1].moves) >= 2
    /\ LegalMoves(engine, SubSeq(output_pgns[1].moves, 1, Len(output_pgns[1].moves) - 1))
           = <<0>>
    /\ output_pgns[1].headers["ExpiryTime"] = <<"1">>
    /\ output_pgns[2].headers["ExpiryTime"] = <<"1">>

(* ----------------------- claims on the first game --------------------- *)

\* The Game Set without the ExpiryTime headers of its games after the first.
LaterUnstamped(read) == Restamped(read, [i \in 1..Len(read) |-> <<>>])

\* The error decode has raised is one of the expiry check.
ExpiryError ==
    DecodeError("This file has expired") \/ DecodeError("invalid literal for int()")

\* C21: decode decides on the expiry from the first game alone: when the
\* first game has no ExpiryTime header decode raises no error of the expiry
\* check, whatever the later games carry; when it has one, decode fails as
\* expired exactly when the time it read is past it; and two runs of decode
\* at the same time on Game Sets that differ only in the ExpiryTime headers
\* of games after the first end alike.
C21_FirstGameDecides ==
    /\ (dpc # "idle" /\ Len(games) > 0) =>
           /\ "ExpiryTime" \notin DOMAIN games[1].headers => ~ExpiryError
           /\ HasExpiry =>
                  (DecodeError("This file has expired") <=> current_time > FirstExpiry)
           /\ HasExpiry => ~DecodeError("invalid literal for int()")
    /\ (Len(previous) > 0 /\ DecodeReturned /\ current_time = previous[1].time
            /\ LaterUnstamped(games) = LaterUnstamped(previous[1].games)) =>
           /\ dpc = previous[1].dpc
           /\ derr = previous[1].derr
           /\ outFile = previous[1].outFile
           /\ all_bits = previous[1].all_bits

\* C21 witness: a Game Set whose first game has no ExpiryTime and whose
\* second carries one that is past, then one that is no number, has been
\* decoded both times.
C21_Witness ==
    /\ Len(previous) > 0
    /\ dpc = "done"
    /\ previous[1].dpc = "done"
    /\ current_time >= 1
    /\ current_time = previous[1].time
    /\ Len(games) >= 2
    /\ "ExpiryTime" \notin DOMAIN games[1].headers
    /\ "ExpiryTime" \in DOMAIN previous[1].games[2].headers
    /\ previous[1].games[2].headers["ExpiryTime"] = <<"0">>
    /\ "ExpiryTime" \in DOMAIN games[2].headers
    /\ games[2].headers["ExpiryTime"] = <<"x">>

(* ------------------------- claims on the records ---------------------- *)

\* The headers of a record other than Seed and Round.
SharedHeaders(record) ==
    [k \in DOMAIN record.headers \ {"Seed", "Round"} |-> record.headers[k]]

\* C22: in the Game Set encode has written of more than one game, the k-th
\* record, k >= 2, carries Round = k, and all records carry the same headers
\* but for Seed and Round.
C22_RoundCounter ==
    (epc = "done" /\ game_number >= 2) =>
        /\ \A k \in 2..Len(output_pgns) : output_pgns[k].headers["Round"] = Str(k)
        /\ \A k \in 1..Len(output_pgns) :
               SharedHeaders(output_pgns[k]) = SharedHeaders(output_pgns[1])

(* -------------------------- claims on the seeds ----------------------- *)

\* The generator states of a game's plies follow one from the other,
\* beginning with the generator seeded with seed.
OneStream(trace, seed) ==
    /\ Len(trace) > 0 => trace[1].rng = Random(seed)
    /\ \A j \in 2..Len(trace) : trace[j].rng = trace[j - 1].after
    /\ \A j \in 1..Len(trace) : ShuffledAsDue(trace[j])

\* Each game begun has drawn one seed in 1..MaxSeed, the seed of the game in
\* progress is the last drawn, its generator is the one seeded with it and
\* advanced by the shuffles of this game alone, its board holds the moves
\* of this game alone; and every record made carries as Seed the seed its
\* game was begun with and as moves the moves played in that game.  decode
\* replays each game with the generator seeded with that seed.
C23_SeedOfItsGame ==
    FrameBuilt =>
        /\ Len(drawn) = game_number
        /\ Len(picked) = game_number
        /\ \A g \in 1..game_number : drawn[g] \in 1..MaxSeed
        /\ base_seed = drawn[game_number]
        /\ \A g \in 1..game_number : OneStream(picked[g], drawn[g])
        /\ move_random = (IF Len(Last(picked)) = 0 THEN Random(base_seed)
                          ELSE Last(Last(picked)).after)
        /\ epc = "loop" => chess_board = MovesOf(Last(picked), Len(Last(picked)))
        /\ \A k \in 1..Len(output_pgns) :
               LET g == GameOfRecord(k)
               IN  /\ output_pgns[k].headers["Seed"] = Str(drawn[g])
                   /\ ParseInt(output_pgns[k].headers["Seed"]) = drawn[g]
                   /\ output_pgns[k].moves = MovesOf(picked[g], Len(picked[g]))
        /\ DecodesWritten =>
               \A i \in 1..Len(found) :
                   OneStream(found[i], drawn[GameOfRecord(i)])

\* A step of encode that begins a game makes the record of the game it ends
\* with the seed of that game, empties the board, draws a seed and seeds a
\* new generator with it.
C23_NewGame ==
    (epc = "loop" /\ game_number' # game_number) =>
        /\ game_number' = game_number + 1
        /\ Len(output_pgns') = Len(output_pgns) + 1
        /\ Last(output_pgns').headers["Seed"] = Str(base_seed)
        /\ chess_board' = <<>>
        /\ drawn' = Append(drawn, base_seed')
        /\ base_seed' \in 1..MaxSeed
        /\ move_random' = Random(base_seed')

\* C23: every record's Seed header is the seed with which the generator
\* that shuffled the moves of its game was initialised; each game begins on
\* an empty board with a newly drawn seed and a generator made from it, and
\* the seed written when a game is closed is that game's, not the next's.
C23_SeedPerGame ==
    /\ []C23_SeedOfItsGame
    /\ [][C23_NewGame]_vars

\* C23 witness: encode has written two games with different seeds, the
\* first closed by a forced move, each record with the seed of its game.
C23_Witness ==
    /\ epc = "done"
    /\ game_number = 2
    /\ drawn = <<2, 1>>
    /\ output_pgns[1].headers["Seed"] = <<"2">>
    /\ output_pgns[2].headers["Seed"] = <<"1">>
    /\ Len(picked[1]) >= 2
    /\ Last(picked[1]).n = 1
    /\ Len(picked[2]) >= 1
    /\ picked[2][1].rng = Random(1)

(* ------------------------ claims on termination ----------------------- *)

\* An iteration of the loop at a position with two or more legal moves
\* advances the cursor by at least one bit and not past the frame; any other
\* iteration leaves the cursor and plays the only legal move or begins a new
\* game.
C24_Progress ==
    (epc = "loop" /\ file_bit_index < file_bits_count) =>
        LET legal_moves == LegalMoves(engine, chess_board)
        IN  IF Len(legal_moves) >= 2
            THEN /\ file_bit_index' >= file_bit_index + 1
                 /\ file_bit_index' <= file_bits_count
            ELSE /\ file_bit_index' = file_bit_index
                 /\ \/ /\ Len(legal_moves) = 1
                        /\ chess_board' = Append(chess_board, legal_moves[1])
                        /\ game_number' = game_number
                    \/ /\ chess_board' = <<>>
                        /\ game_number' = game_number + 1
                        /\ Len(output_pgns') = Len(output_pgns) + 1

\* encode has returned: the cursor is at the end of the frame and the Game
\* Set is written.
EncodeWritten ==
    /\ epc = "done"
    /\ file_bit_index = file_bits_count
    /\ Len(output_pgns) > 0
    /\ pgnFile = <<output_pgns>>

\* C24: encode of a non-empty payload terminates, the engine yielding a
\* bounded number of positions with one legal move: every iteration at a
\* position with two or more legal moves advances the cursor by at least
\* one bit, every other plays a forced move or begins a new game, and in
\* the end the cursor is at the end of the frame and the Game Set is
\* written.
C24_Terminates ==
    /\ [][C24_Progress]_vars
    /\ <>EncodeWritten

\* C24 witness: encode has returned after a game that a forced move into a
\* position without legal moves ended, and after steps of one bit.
C24_Witness ==
    /\ EncodeWritten
    /\ game_number >= 2
    /\ \E k \in 1..Len(output_pgns) :
           LET moves == output_pgns[k].moves
           IN  /\ Len(moves) >= 2
               /\ Len(LegalMoves(engine, SubSeq(moves, 1, Len(moves) - 1))) = 1
               /\ is_game_over(engine, moves)
    /\ \E c \in 1..(Len(chunks) - 1) : Len(chunks[c]) = 1

====
